---- MODULE Spec2Model ----
(***************************************************************************)
(* Weather station: the reading tables, the daily rollups and the REST     *)
(* handlers of weather_station.py, run against one shared database file.   *)
(*                                                                         *)
(* Timestamps are whole seconds since 00:00:00 of day 0; a date is a day   *)
(* number.  A table is the sequence of its rows in rowid order: rows are   *)
(* never deleted, so SQLite's rowid of a row is its index.  Values are     *)
(* integers (floats with no fraction); a mean is the exact quotient        *)
(* sum/count, kept as a fraction in lowest terms.  A NULL column is <<>>,  *)
(* a non-NULL optional column <<v>>; rowid 0 stands for "no row" (None).   *)
(***************************************************************************)
EXTENDS Integers, Sequences, FiniteSets, TLC

VARIABLES db, request, response, req, txn, started, call, norm, overlaps

vars == <<db, request, response, req, txn, started, call, norm, overlaps>>

(***************************************************************************)
(* Bounds and input domains                                                *)
(***************************************************************************)
\* rows the reading tables may hold in total (sequential specifications)
MaxReadings == 2

Quantities == {"temperature", "pressure"}

\* raw request timestamps: day 0 00:05:30, day 0 23:53:10, day 1 00:05:00
Whens == {330, 85990, 86700}
Resolutions == {10, 15}
Values == {1, 2}
SensorValues == {7}

\* mfields.Integer(missing=15)
DefaultResolution == 15

(***************************************************************************)
(* Dates and times                                                         *)
(***************************************************************************)
SecondsPerDay == 24 * 60 * 60

\* datetime.date(): the calendar day of a timestamp
DateOf(when) == when \div SecondsPerDay

\* datetime.replace(hour=0, minute=0, second=0, microsecond=0)
DayStart(when) == DateOf(when) * SecondsPerDay

\* datetime.minute
MinuteOf(when) == (when \div 60) % 60

\* Python 3 round(n / d) for integers n >= 0 and d /= 0: the float quotient
\* is the correctly rounded n/d, and an exact half is representable, so
\* round() rounds the rational n/d to the nearest integer, halves to even.
RoundDiv(n, d) ==
    LET a  == IF d < 0 THEN d * (0 - 1) ELSE d
        m  == IF d < 0 THEN n * (0 - 1) ELSE n
        f  == m \div a
        r2 == 2 * (m - f * a)
    IN  IF r2 < a THEN f
        ELSE IF r2 > a THEN f + 1
        ELSE IF f % 2 = 0 THEN f ELSE f + 1

\* a normalisation that sets the minute of the hour, when.replace(minute=
\* target % 60), in place of adding a timedelta
normalise_replacing_minute(when, resolution) ==
    LET when_minute == when - (when % 60)
        target      == RoundDiv(MinuteOf(when_minute), resolution) * resolution
    IN  when_minute - 60 * MinuteOf(when_minute) + 60 * (target % 60)

\* normalise_for_resolution, on the request's when_recorded and resolution
normalise_for_resolution(when, resolution) ==
    LET when_minute  == when - (when % 60)
        minute_delta == RoundDiv(MinuteOf(when_minute), resolution) * resolution
                            - MinuteOf(when_minute)
    IN  when_minute + 60 * minute_delta

(***************************************************************************)
(* The database                                                            *)
(***************************************************************************)
DailyTable(q) == IF q = "temperature" THEN "daily_temperature" ELSE "daily_pressure"

\* create_schema: four empty tables
EmptyDb ==
    [temperature |-> <<>>, daily_temperature |-> <<>>,
     pressure |-> <<>>, daily_pressure |-> <<>>]

\* the reading row an INSERT of `data` stores: the value column is named as
\* the table; pressure has the nullable sensor_temperature column as well
ReadingRow(q, data) ==
    IF q = "temperature"
    THEN [when_recorded |-> data.when_recorded, temperature |-> data.temperature,
          resolution |-> data.resolution]
    ELSE [when_recorded |-> data.when_recorded, pressure |-> data.pressure,
          sensor_temperature |-> IF "sensor_temperature" \in DOMAIN data
                                 THEN <<data.sensor_temperature>> ELSE <<>>,
          resolution |-> data.resolution]

\* INSERT INTO table: the new row gets the next rowid
InsertRow(d, table, row) == [d EXCEPT ![table] = Append(@, row)]

\* cursor.lastrowid after the INSERT
LastRowId(d, table) == Len(d[table])

\* UPDATE table SET f = ? ... WHERE rowid = ?: the columns named in data
\* change, every other column of the row keeps its value
UpdateRow(d, table, data, id) ==
    [d EXCEPT ![table][id] =
        [f \in DOMAIN @ |->
            IF f \in DOMAIN data
            THEN (IF f = "sensor_temperature" THEN <<data[f]>> ELSE data[f])
            ELSE @[f]]]

\* SELECT rowid as id ... WHERE when_recorded = ?, one=True: the first match
SelectByWhen(d, q, when) ==
    LET hits == {i \in 1..Len(d[q]) : d[q][i].when_recorded = when}
    IN  IF hits = {} THEN 0 ELSE CHOOSE i \in hits : \A j \in hits : i <= j

\* SELECT rowid as id ... WHERE rowid = ?, one=True
SelectByRowId(d, table, id) == IF id \in 1..Len(d[table]) THEN id ELSE 0

\* the rollup lookup without its WHERE day = ?: the first row of the table
SelectDaily_any_day(d, q, day) ==
    IF d[DailyTable(q)] = <<>> THEN 0 ELSE 1

\* SELECT rowid as id FROM daily_<q> WHERE day = ?, one=True: the first match
SelectDaily(d, q, day) ==
    LET t    == d[DailyTable(q)]
        hits == {i \in 1..Len(t) : t[i].day = day}
    IN  IF hits = {} THEN 0 ELSE CHOOSE i \in hits : \A j \in hits : i <= j

\* an ORDER BY col DESC that lists rows with equal keys latest scanned first
RECURSIVE OrderByDesc_ties_reversed(_, _)
OrderByDesc_ties_reversed(rows, col) ==
    IF rows = <<>> THEN <<>>
    ELSE LET n      == Len(rows)
             last   == rows[n]
             sorted == OrderByDesc_ties_reversed(SubSeq(rows, 1, n - 1), col)
             k      == Cardinality({i \in 1..Len(sorted) : sorted[i][col] > last[col]})
         IN  SubSeq(sorted, 1, k) \o <<last>> \o SubSeq(sorted, k + 1, Len(sorted))

\* ORDER BY col DESC over rows given in rowid order: SQLite's sorter keeps
\* rows with equal keys in the order of the scan
RECURSIVE OrderByDesc(_, _)
OrderByDesc(rows, col) ==
    IF rows = <<>> THEN <<>>
    ELSE LET n      == Len(rows)
             last   == rows[n]
             sorted == OrderByDesc(SubSeq(rows, 1, n - 1), col)
             k      == Cardinality({i \in 1..Len(sorted) : sorted[i][col] >= last[col]})
         IN  SubSeq(sorted, 1, k) \o <<last>> \o SubSeq(sorted, k + 1, Len(sorted))

\* the day's SELECT with when_recorded <= ? as its upper bound
SelectDay_closed(d, q, day_start, day_end) ==
    LET InDay(row) == row.when_recorded >= day_start /\ row.when_recorded <= day_end
    IN  OrderByDesc(SelectSeq(d[q], InDay), q)

\* SELECT * FROM <q> WHERE when_recorded >= ? AND when_recorded < ?
\*   ORDER BY <q> DESC
SelectDay(d, q, day_start, day_end) ==
    LET InDay(row) == row.when_recorded >= day_start /\ row.when_recorded < day_end
    IN  OrderByDesc(SelectSeq(d[q], InDay), q)

(***************************************************************************)
(* The Daily Rollup Aggregator                                             *)
(***************************************************************************)
RECURSIVE Gcd(_, _)
Gcd(a, b) == IF b = 0 THEN a ELSE Gcd(b, a % b)

\* temp_sum / len(temps): the quotient of two integers, in lowest terms
Quotient(total, count) ==
    LET g == Gcd(total, count) IN [num |-> total \div g, den |-> count \div g]

\* temp_sum = 0; for t in temps: temp_sum += t[q]
RECURSIVE SumOf(_, _)
SumOf(temps, col) ==
    IF temps = <<>> THEN 0 ELSE temps[1][col] + SumOf(Tail(temps), col)

\* the data dict with the median taken from index (len - 1) // 2
RollupData_upper_median(q, day, temps) ==
    LET high   == temps[1]
        low    == temps[Len(temps)]
        median == temps[((Len(temps) - 1) \div 2) + 1]
    IN  [day             |-> DateOf(day),
         high            |-> high[q],
         low             |-> low[q],
         mean            |-> Quotient(SumOf(temps, q), Len(temps)),
         median          |-> median[q],
         high_recorded   |-> high.when_recorded,
         low_recorded    |-> low.when_recorded,
         median_recorded |-> median.when_recorded]

\* the data dict with high taken from the last of the rows that share the
\* highest value
RollupData_last_high(q, day, temps) ==
    LET top    == {i \in 1..Len(temps) : temps[i][q] = temps[1][q]}
        high   == temps[Cardinality(top)]
        low    == temps[Len(temps)]
        median == temps[(Len(temps) \div 2) + 1]
    IN  [day             |-> DateOf(day),
         high            |-> high[q],
         low             |-> low[q],
         mean            |-> Quotient(SumOf(temps, q), Len(temps)),
         median          |-> median[q],
         high_recorded   |-> high.when_recorded,
         low_recorded    |-> low.when_recorded,
         median_recorded |-> median.when_recorded]

\* the data dict of update_daily_temperatures / update_daily_pressure, from
\* the non-empty, value-descending list temps
RollupData(q, day, temps) ==
    LET high   == temps[1]
        low    == temps[Len(temps)]
        median == temps[(Len(temps) \div 2) + 1]
    IN  [day             |-> DateOf(day),
         high            |-> high[q],
         low             |-> low[q],
         mean            |-> Quotient(SumOf(temps, q), Len(temps)),
         median          |-> median[q],
         high_recorded   |-> high.when_recorded,
         low_recorded    |-> low.when_recorded,
         median_recorded |-> median.when_recorded]

\* an upsert that always INSERTs
UpsertDaily_always_insert(d, q, data, existing) ==
    InsertRow(d, DailyTable(q), data)

\* the upsert that ends update_daily_*: UPDATE the existing row, else INSERT
UpsertDaily(d, q, data, existing) ==
    IF existing /= 0
    THEN UpdateRow(d, DailyTable(q), data, existing)
    ELSE InsertRow(d, DailyTable(q), data)

\* a recomputation that inserts the day's first rollup and never updates it
update_daily_insert_only(d, q, day) ==
    LET day_start == DayStart(day)
        temps     == SelectDay(d, q, day_start, day_start + SecondsPerDay)
    IN  IF temps /= <<>> /\ SelectDaily(d, q, DateOf(day)) = 0
        THEN InsertRow(d, DailyTable(q), RollupData(q, day, temps))
        ELSE d

\* a recomputation that empties the rollup table when the day has no readings
update_daily_clearing(d, q, day) ==
    LET day_start == DayStart(day)
        day_end   == day_start + SecondsPerDay
        temps     == SelectDay(d, q, day_start, day_end)
    IN  IF temps /= <<>>
        THEN UpsertDaily(d, q, RollupData(q, day, temps), SelectDaily(d, q, DateOf(day)))
        ELSE [d EXCEPT ![DailyTable(q)] = <<>>]

\* update_daily_temperatures(day) / update_daily_pressure(day), day being the
\* timestamp of the reading that changed
update_daily(d, q, day) ==
    LET day_start == DayStart(day)
        day_end   == day_start + SecondsPerDay
        temps     == SelectDay(d, q, day_start, day_end)
    IN  IF temps /= <<>>
        THEN UpsertDaily(d, q, RollupData(q, day, temps), SelectDaily(d, q, DateOf(day)))
        ELSE d

(***************************************************************************)
(* The Interval Query Engine                                               *)
(***************************************************************************)
\* SELECT rowid as id, <columns> FROM table: no ORDER BY, and the schema has
\* no index, so SQLite scans the table and yields the rows in rowid order
SelectAll(d, table) ==
    [i \in 1..Len(d[table]) |-> [id |-> i] @@ d[table][i]]

\* a query whose "exactly" branch keeps the before and after conditions
add_date_criteria_keeping_bounds(rows, date_field, args) ==
    LET Match(row) ==
            /\ "exactly" \in DOMAIN args => row[date_field] = args.exactly
            /\ "before" \in DOMAIN args => row[date_field] <= args.before
            /\ "after" \in DOMAIN args => row[date_field] >= args.after
    IN  SelectSeq(rows, Match)

\* a query whose before bound is exclusive
add_date_criteria_strict_before(rows, date_field, args) ==
    LET Exactly(row) == row[date_field] = args.exactly
        Within(row) ==
            /\ "before" \in DOMAIN args => row[date_field] < args.before
            /\ "after" \in DOMAIN args => row[date_field] >= args.after
    IN  IF "exactly" \in DOMAIN args THEN SelectSeq(rows, Exactly)
        ELSE SelectSeq(rows, Within)

\* add_date_criteria_to_query and the query it extends, applied to the rows
\* of the table in scan order
add_date_criteria_to_query(rows, date_field, args) ==
    LET Exactly(row) == row[date_field] = args.exactly
        Within(row) ==
            /\ "before" \in DOMAIN args => row[date_field] <= args.before
            /\ "after" \in DOMAIN args => row[date_field] >= args.after
    IN  IF "exactly" \in DOMAIN args THEN SelectSeq(rows, Exactly)
        ELSE IF "before" \in DOMAIN args \/ "after" \in DOMAIN args
        THEN SelectSeq(rows, Within)
        ELSE rows

\* the time field a collection is queried by
DateField(table) ==
    IF table \in {"temperature", "pressure"} THEN "when_recorded" ELSE "day"

\* TemperatureCollection.get, PressureCollection.get,
\* DailyTemperatureCollection.get, DailyPressureCollection.get
CollectionGet(d, table, args) ==
    [op |-> "list", q |-> table, status |-> 200, id |-> 0,
     rows |-> add_date_criteria_to_query(SelectAll(d, table), DateField(table), args)]

\* TemperatureDocument.get / PressureDocument.get: the row of the rowid
DocumentGet(d, table, id) ==
    IF SelectByRowId(d, table, id) = 0
    THEN [op |-> "get", q |-> table, status |-> 404, id |-> id, rows |-> <<>>]
    ELSE [op |-> "get", q |-> table, status |-> 200, id |-> id,
          rows |-> <<SelectAll(d, table)[id]>>]

\* a latest that returns the row inserted last
LatestGet_last_inserted(d, table) ==
    LET rows == SelectAll(d, table)
    IN  IF rows = <<>>
        THEN [op |-> "latest", q |-> table, status |-> 404, id |-> 0, rows |-> <<>>]
        ELSE [op |-> "latest", q |-> table, status |-> 200, id |-> rows[Len(rows)].id,
              rows |-> <<rows[Len(rows)]>>]

\* TemperatureLatest.get / PressureLatest.get: SELECT ... ORDER BY
\* when_recorded DESC LIMIT 1, one=True
LatestGet(d, table) ==
    LET rows == OrderByDesc(SelectAll(d, table), DateField(table))
    IN  IF rows = <<>>
        THEN [op |-> "latest", q |-> table, status |-> 404, id |-> 0, rows |-> <<>>]
        ELSE [op |-> "latest", q |-> table, status |-> 200, id |-> rows[1].id,
              rows |-> <<rows[1]>>]

(***************************************************************************)
(* Request bodies and their validation                                     *)
(***************************************************************************)
\* the fields a schema loads; any other key of the body is a validation error
PostFields(q) ==
    IF q = "temperature" THEN {"when_recorded", "temperature", "resolution"}
    ELSE {"when_recorded", "pressure", "sensor_temperature", "resolution"}

\* temperature_put_schema = TemperatureSchema(only=('temperature',)),
\* pressure_put_schema = PressureSchema(only=('pressure','sensor_temperature'))
PutFields(q) ==
    IF q = "temperature" THEN {"temperature"} ELSE {"pressure", "sensor_temperature"}

\* load_request_body(<q>_document_schema): the value is required
PostBodyValid(q, body) == DOMAIN body \subseteq PostFields(q) /\ q \in DOMAIN body

\* a PUT schema that loads every field of the document schema
PutBodyValid_any_field(q, body) ==
    /\ DOMAIN body \subseteq PostFields(q)
    /\ q = "temperature" => "temperature" \in DOMAIN body

\* load_request_body(temperature_put_schema) requires temperature;
\* load_request_body(pressure_put_schema, partial=(...)) requires nothing
PutBodyValid(q, body) ==
    /\ DOMAIN body \subseteq PutFields(q)
    /\ q = "temperature" => "temperature" \in DOMAIN body

\* the loaded POST data: resolution defaults to 15; a missing when_recorded is
\* replaced by the clock reading `now`
PostData(body, now) ==
    [f \in DOMAIN body \cup {"when_recorded", "resolution"} |->
        IF f \in DOMAIN body THEN body[f]
        ELSE IF f = "resolution" THEN DefaultResolution ELSE now]

(***************************************************************************)
(* The handlers, run from start to end                                     *)
(***************************************************************************)
\* what the client gets: the status, and the rowid of the reading the reply
\* is about (201: the Location header; 409: the location of the abort; 204:
\* the row that was updated; 0 in the replies that name no row)
Reply(op, q, status, id) ==
    [op |-> op, q |-> q, status |-> status, id |-> id, rows |-> <<>>]

NoReply == Reply("none", "none", 0, 0)

\* what the last request met, kept for the record: a POST's when_recorded and
\* resolution as loaded, before normalisation; the value a successful PUT
\* found in the row it updated
Asked(when, resolution, replaced) ==
    [when_recorded |-> when, resolution |-> resolution, replaced |-> replaced]

NoRequest == Asked(0, 0, 0)

\* a POST whose existence check looks for the timestamp as it was sent
Post_raw_check(d, q, data) ==
    LET when     == normalise_for_resolution(data.when_recorded, data.resolution)
        existing == SelectByWhen(d, q, data.when_recorded)
        inserted == InsertRow(d, q, ReadingRow(q, [data EXCEPT !.when_recorded = when]))
    IN  IF existing /= 0
        THEN [db |-> d, reply |-> Reply("post", q, 409, existing)]
        ELSE [db    |-> update_daily(inserted, q, when),
              reply |-> Reply("post", q, 201, LastRowId(inserted, q))]

\* a POST that overwrites the value of the row it conflicts with
Post_overwrite(d, q, data) ==
    LET when     == normalise_for_resolution(data.when_recorded, data.resolution)
        existing == SelectByWhen(d, q, when)
        inserted == InsertRow(d, q, ReadingRow(q, [data EXCEPT !.when_recorded = when]))
    IN  IF existing /= 0
        THEN [db    |-> update_daily(UpdateRow(d, q, [f \in {q} |-> data[q]], existing), q, when),
              reply |-> Reply("post", q, 409, existing)]
        ELSE [db    |-> update_daily(inserted, q, when),
              reply |-> Reply("post", q, 201, LastRowId(inserted, q))]

\* a POST that recomputes the day of the timestamp as it was sent
Post_raw_day(d, q, data) ==
    LET when     == normalise_for_resolution(data.when_recorded, data.resolution)
        stored   == [data EXCEPT !.when_recorded = when]
        existing == SelectByWhen(d, q, when)
        inserted == InsertRow(d, q, ReadingRow(q, stored))
    IN  IF existing /= 0
        THEN [db |-> d, reply |-> Reply("post", q, 409, existing)]
        ELSE [db    |-> update_daily(inserted, q, data.when_recorded),
              reply |-> Reply("post", q, 201, LastRowId(inserted, q))]

\* a POST whose existence check looks for the timestamp in the reading
\* tables of both quantities
Post_shared_slots(d, q, data) ==
    LET when     == normalise_for_resolution(data.when_recorded, data.resolution)
        stored   == [data EXCEPT !.when_recorded = when]
        taken    == {o \in Quantities : SelectByWhen(d, o, when) /= 0}
        inserted == InsertRow(d, q, ReadingRow(q, stored))
    IN  IF taken /= {}
        THEN [db    |-> d,
              reply |-> Reply("post", q, 409,
                              SelectByWhen(d, CHOOSE o \in taken : TRUE, when))]
        ELSE [db    |-> update_daily(inserted, q, when),
              reply |-> Reply("post", q, 201, LastRowId(inserted, q))]

\* TemperatureCollection.post / PressureCollection.post on a valid body; with
\* resolution 0 the division in normalise_for_resolution raises
\* ZeroDivisionError, which nothing catches: the request ends with status 500
\* before any statement has run
Post(d, q, data) ==
    LET when     == normalise_for_resolution(data.when_recorded, data.resolution)
        stored   == [data EXCEPT !.when_recorded = when]
        existing == SelectByWhen(d, q, when)
        inserted == InsertRow(d, q, ReadingRow(q, stored))
    IN  IF data.resolution = 0
        THEN [db |-> d, reply |-> Reply("post", q, 500, 0)]
        ELSE IF existing /= 0
        THEN [db |-> d, reply |-> Reply("post", q, 409, existing)]
        ELSE [db    |-> update_daily(inserted, q, when),
              reply |-> Reply("post", q, 201, LastRowId(inserted, q))]

\* a PUT that updates the reading and leaves the rollup as it is
Put_without_rollup(d, q, id, data) ==
    LET result == SelectByRowId(d, q, id)
    IN  IF result = 0
        THEN [db |-> d, reply |-> Reply("put", q, 404, id)]
        ELSE IF DOMAIN data = {}
        THEN [db |-> d, reply |-> Reply("put", q, 500, id)]
        ELSE [db |-> UpdateRow(d, q, data, id), reply |-> Reply("put", q, 204, id)]

\* a PUT without the abort(404): the UPDATE of an unknown rowid changes no
\* row, and reading result.when_recorded of no row ends the request (500)
Put_unchecked(d, q, id, data) ==
    IF DOMAIN data = {} \/ id \notin 1..Len(d[q])
    THEN [db |-> d, reply |-> Reply("put", q, 500, id)]
    ELSE [db    |-> update_daily(UpdateRow(d, q, data, id), q, d[q][id].when_recorded),
          reply |-> Reply("put", q, 204, id)]

\* TemperatureDocument.put / PressureDocument.put on a valid body; an empty
\* data dict makes perform_update issue "UPDATE t SET  WHERE rowid = ?", which
\* SQLite rejects: the request ends in an unhandled OperationalError (500)
Put(d, q, id, data) ==
    LET result == SelectByRowId(d, q, id)
    IN  IF result = 0
        THEN [db |-> d, reply |-> Reply("put", q, 404, id)]
        ELSE IF DOMAIN data = {}
        THEN [db |-> d, reply |-> Reply("put", q, 500, id)]
        ELSE [db    |-> update_daily(UpdateRow(d, q, data, id), q, d[q][id].when_recorded),
              reply |-> Reply("put", q, 204, id)]

(***************************************************************************)
(* Requests                                                                *)
(***************************************************************************)
\* POST bodies: complete, with neither when_recorded nor resolution, with a
\* sensor_temperature and no resolution, and without the required value
PostBodies(q) ==
    LET full  == IF q = "temperature"
                 THEN [when_recorded : Whens, temperature : Values, resolution : Resolutions]
                 ELSE [when_recorded : Whens, pressure : Values, resolution : Resolutions]
        bare  == IF q = "temperature"
                 THEN [temperature : Values] ELSE [pressure : Values]
        sens  == IF q = "temperature" THEN {}
                 ELSE [when_recorded : Whens, pressure : Values,
                       sensor_temperature : SensorValues]
    IN  full \cup bare \cup sens \cup {[resolution |-> DefaultResolution]}

\* PUT bodies: a value, and for pressure any part of {pressure,
\* sensor_temperature}, the empty part included; a temperature body without
\* the value; bodies that name resolution or when_recorded, no PUT fields
PutBodies(q) ==
    IF q = "temperature"
    THEN [temperature : Values] \cup {<<>>}
         \cup {[resolution |-> DefaultResolution]}
         \cup [temperature : Values, when_recorded : {330}]
    ELSE [pressure : Values] \cup [sensor_temperature : SensorValues]
         \cup [pressure : Values, sensor_temperature : SensorValues]
         \cup {<<>>}
         \cup [pressure : Values, when_recorded : {330}]

\* resolutions the schema's Integer field loads: negative, zero, a value
\* that does not divide 60, the default
AnyResolutions == {0 - 15, 0, 7, 15}

\* POST bodies with those resolutions
IngestBodies(q) ==
    IF q = "temperature"
    THEN [when_recorded : Whens, temperature : {1}, resolution : AnyResolutions]
    ELSE [when_recorded : Whens, pressure : {1}, resolution : AnyResolutions]

\* POST bodies that leave the resolution to its default
PlainBodies(q) ==
    IF q = "temperature"
    THEN [when_recorded : Whens, temperature : Values]
    ELSE [when_recorded : Whens, pressure : Values]

\* rowids a client may name
Ids == 1..MaxReadings

\* readings a table may hold when update_daily_<q> is called on its own
MaxSample == 4

\* 00:15, 06:00, 12:00 and 23:50 of day 0, 00:00 of day 1
SampleTimes == {900, 21600, 43200, 85800, 86400}
SampleValues == {5, 10, 20}

\* the timestamps update_daily_<q> is called with: days 0, 1 and 2
CallTimes == {900, 86400, 172800}

\* the reading tables of n rows over the sample times and values, no
\* timestamp twice, in every insertion order
TablesOf(q, n) ==
    {[i \in 1..n |-> ReadingRow(q, [when_recorded |-> t[i], resolution |-> DefaultResolution]
                                     @@ [f \in {q} |-> v[i]])] :
        t \in {u \in [1..n -> SampleTimes] : \A a, b \in 1..n : u[a] = u[b] => a = b},
        v \in [1..n -> SampleValues]}

\* the reading tables of at most MaxSample rows
SampleTables(q) == UNION {TablesOf(q, n) : n \in 0..MaxSample}

\* readings a table may hold when update_daily_<q> is called repeatedly, and
\* the number of those calls
MaxFew == 2
MaxCalls == 2

\* requests the statement-level specifications start in all
MaxRequests == 2

\* the requests of the statement-level specifications: POSTs sent with
\* resolution 10, PUTs that pass validation and name a column
StmtQuantities == Quantities
StmtPostBodies(q) == {b \in PostBodies(q) : "resolution" \in DOMAIN b /\ b.resolution = 10}
StmtPutBodies(q) == {b \in PutBodies(q) : PutBodyValid(q, b) /\ DOMAIN b /= {}}

\* the timestamps and the dates a List query may name
QueryTimes == {0, 85800, 86400}
QueryDays == {0, 1}

\* the query strings over a set of times: each of exactly, before and after
\* is either absent or one of the times
QueryArgs(times) ==
    LET keys   == {"exactly", "before", "after"}
        absent == 0 - 1
        Given(f) == {k \in keys : f[k] /= absent}
    IN  {[k \in Given(f) |-> f[k]] : f \in [keys -> times \cup {absent}]}

NumReadings(d) == Len(d.temperature) + Len(d.pressure)

(***************************************************************************)
(* The sequential specification: one request at a time, start to end       *)
(***************************************************************************)
\* the requests that may be in progress at once, each on its own connection
Procs == {1, 2}

\* a request in progress: the statement it runs next (pc) and its locals;
\* between requests, the reply of the one that ended last
Running(pc, op, q, data, id, when, rollup, existing) ==
    [pc |-> pc, op |-> op, q |-> q, data |-> data, id |-> id, when |-> when,
     rollup |-> rollup, existing |-> existing, reply |-> NoReply]

Idle(reply) ==
    [pc |-> "idle", op |-> "none", q |-> "none", data |-> <<>>, id |-> 0, when |-> 0,
     rollup |-> <<>>, existing |-> 0, reply |-> reply]

IdleReq == [p \in Procs |-> Idle(NoReply)]

\* the open write transaction: the connection that holds SQLite's write lock
\* and the database as that connection has changed it, not yet committed
Txn(owner, d) == [owner |-> owner, db |-> d]

NoTxn == Txn(0, <<>>)

\* a direct call of update_daily_<q>(day), and whether it has returned
Call(q, day, done) == [q |-> q, day |-> day, done |-> done]

NoCall == Call("none", 0, FALSE)

\* normalise_for_resolution applied on its own: the data it was given, what
\* it returned, what it returned when given that again, and how often it ran
Norm(when, resolution, once, twice, applied) ==
    [when_recorded |-> when, resolution |-> resolution,
     once |-> once, twice |-> twice, applied |-> applied]

NoNorm == Norm(0, 0, 0, 0, 0)

Init ==
    /\ db = EmptyDb
    /\ request = NoRequest
    /\ response = NoReply
    /\ req = IdleReq
    /\ txn = NoTxn
    /\ started = 0
    /\ call = NoCall
    /\ norm = NoNorm
    /\ overlaps = {}

PostWith(q, bodies) ==
    \E body \in bodies :
      \E now \in (IF "when_recorded" \in DOMAIN body THEN {0} ELSE Whens) :
        /\ IF ~PostBodyValid(q, body)
           THEN /\ db' = db
                /\ request' = NoRequest
                /\ response' = Reply("post", q, 400, 0)
           ELSE LET data == PostData(body, now)
                    r    == Post(db, q, data)
                IN  /\ r.reply.status = 201 => NumReadings(db) < MaxReadings
                    /\ db' = r.db
                    /\ request' = Asked(data.when_recorded, data.resolution, 0)
                    /\ response' = r.reply
        /\ UNCHANGED <<req, txn, started, call, norm, overlaps>>

PutAction(q) ==
    \E id \in Ids, body \in PutBodies(q) :
        /\ IF ~PutBodyValid(q, body)
           THEN /\ db' = db
                /\ request' = NoRequest
                /\ response' = Reply("put", q, 400, 0)
           ELSE LET r == Put(db, q, id, body)
                IN  /\ db' = r.db
                    /\ request' = IF r.reply.status = 204
                                  THEN Asked(0, 0, db[q][id][q]) ELSE NoRequest
                    /\ response' = r.reply
        /\ UNCHANGED <<req, txn, started, call, norm, overlaps>>

PostAction(q) == PostWith(q, PostBodies(q))

TemperatureCollection_post == PostAction("temperature")
PressureCollection_post == PostAction("pressure")
TemperatureDocument_put == PutAction("temperature")
PressureDocument_put == PutAction("pressure")

Next ==
    \/ TemperatureCollection_post
    \/ PressureCollection_post
    \/ TemperatureDocument_put
    \/ PressureDocument_put

Spec == Init /\ [][Next]_vars

(***************************************************************************)
(* The Ingest specification: readings are posted one request at a time     *)
(* with any integer as their resolution                                    *)
(***************************************************************************)
TemperatureCollection_post_any == PostWith("temperature", IngestBodies("temperature"))
PressureCollection_post_any == PostWith("pressure", IngestBodies("pressure"))

NextIngest ==
    \/ TemperatureCollection_post_any
    \/ PressureCollection_post_any

SpecIngest == Init /\ [][NextIngest]_vars

(***************************************************************************)
(* The Read specification: readings of both quantities are ingested, with  *)
(* the default resolution, and corrected one request at a time, and        *)
(* between the writes the documents, the latest readings and the whole     *)
(* collections are fetched                                                 *)
(***************************************************************************)
TemperatureCollection_post_plain == PostWith("temperature", PlainBodies("temperature"))
PressureCollection_post_plain == PostWith("pressure", PlainBodies("pressure"))

ReadAction(reply) ==
    /\ response' = reply
    /\ request' = NoRequest
    /\ UNCHANGED <<db, req, txn, started, call, norm, overlaps>>

TemperatureDocument_get == \E id \in Ids : ReadAction(DocumentGet(db, "temperature", id))
PressureDocument_get == \E id \in Ids : ReadAction(DocumentGet(db, "pressure", id))
TemperatureLatest_get == ReadAction(LatestGet(db, "temperature"))
PressureLatest_get == ReadAction(LatestGet(db, "pressure"))
PressureCollection_get == ReadAction(CollectionGet(db, "pressure", <<>>))
DailyPressureCollection_get == ReadAction(CollectionGet(db, "daily_pressure", <<>>))

NextRead ==
    \/ TemperatureCollection_post_plain
    \/ PressureCollection_post_plain
    \/ TemperatureDocument_put
    \/ PressureDocument_put
    \/ TemperatureDocument_get
    \/ PressureDocument_get
    \/ TemperatureLatest_get
    \/ PressureLatest_get
    \/ PressureCollection_get
    \/ DailyPressureCollection_get

SpecRead == Init /\ [][NextRead]_vars

(***************************************************************************)
(* The List specification: temperatures are ingested and corrected one     *)
(* request at a time, and the two temperature collections are queried      *)
(***************************************************************************)
ListAction(table, times) ==
    \E args \in QueryArgs(times) :
        /\ response' = CollectionGet(db, table, args)
        /\ request' = args
        /\ UNCHANGED <<db, req, txn, started, call, norm, overlaps>>

TemperatureCollection_get == ListAction("temperature", QueryTimes)
DailyTemperatureCollection_get == ListAction("daily_temperature", QueryDays)

NextList ==
    \/ TemperatureCollection_post
    \/ TemperatureDocument_put
    \/ TemperatureCollection_get
    \/ DailyTemperatureCollection_get

SpecList == Init /\ [][NextList]_vars

(***************************************************************************)
(* The statement-level specification: two connections, each running one    *)
(* request at a time, one database statement per step.  A SELECT reads the *)
(* committed database; an INSERT or UPDATE takes the write lock and is     *)
(* seen by the other connection only once db.commit() has run.             *)
(***************************************************************************)
\* for the record: whether a request that writes has begun while the other
\* connection was running a request of the same quantity, on the same day
\* or on another day.  r is the request connection p begins.
Overlaps(p, r) ==
    IF r.pc = "idle" THEN overlaps
    ELSE overlaps \cup
           {IF DateOf(req[o].when) = DateOf(r.when) THEN "same_day" ELSE "other_day" :
              o \in {c \in Procs \ {p} : req[c].pc /= "idle" /\ req[c].q = r.q}}

\* post(): load_request_body, normalise_for_resolution and the SELECT that
\* looks for a reading at the normalised timestamp; abort(409) if there is one
PostBegin(p) ==
    /\ req[p].pc = "idle"
    /\ started < MaxRequests
    /\ \E q \in StmtQuantities : \E body \in StmtPostBodies(q) :
          LET data     == PostData(body, 0)
              when     == normalise_for_resolution(data.when_recorded, data.resolution)
              stored   == [data EXCEPT !.when_recorded = when]
              existing == SelectByWhen(db, q, when)
          IN  req' = [req EXCEPT ![p] =
                        IF existing /= 0
                        THEN Idle(Reply("post", q, 409, existing))
                        ELSE Running("insert", "post", q, stored, 0, when, <<>>, 0)]
    /\ started' = started + 1
    /\ overlaps' = Overlaps(p, req'[p])
    /\ UNCHANGED <<db, request, response, txn, call, norm>>

\* put(id): load_request_body and the SELECT of the row; abort(404) if none
PutBegin(p) ==
    /\ req[p].pc = "idle"
    /\ started < MaxRequests
    /\ \E q \in StmtQuantities : \E id \in Ids, body \in StmtPutBodies(q) :
          LET result == SelectByRowId(db, q, id)
          IN  req' = [req EXCEPT ![p] =
                        IF result = 0
                        THEN Idle(Reply("put", q, 404, id))
                        ELSE Running("update", "put", q, body, id,
                                     db[q][id].when_recorded, <<>>, 0)]
    /\ started' = started + 1
    /\ overlaps' = Overlaps(p, req'[p])
    /\ UNCHANGED <<db, request, response, txn, call, norm>>

\* perform_insert / perform_update on the reading table: cursor.execute
WriteReading(p) ==
    /\ req[p].pc \in {"insert", "update"}
    /\ txn.owner = 0
    /\ LET r == req[p]
           d == IF r.pc = "insert"
                THEN InsertRow(db, r.q, ReadingRow(r.q, r.data))
                ELSE UpdateRow(db, r.q, r.data, r.id)
       IN  /\ txn' = Txn(p, d)
           /\ req' = [req EXCEPT ![p].pc = "commit_reading",
                                 ![p].id = IF r.pc = "insert" THEN LastRowId(d, r.q) ELSE r.id]
    /\ UNCHANGED <<db, request, response, started, call, norm, overlaps>>

\* perform_insert / perform_update on the reading table: db.commit()
CommitReading(p) ==
    /\ req[p].pc = "commit_reading"
    /\ txn.owner = p
    /\ db' = txn.db
    /\ txn' = NoTxn
    /\ req' = [req EXCEPT ![p].pc = "select_day"]
    /\ UNCHANGED <<request, response, started, call, norm, overlaps>>

\* the reply of a request whose writes are done
Done(r) == Reply(r.op, r.q, IF r.op = "post" THEN 201 ELSE 204, r.id)

\* update_daily_<q>: the SELECT of the day's readings, and the data dict
SelectDayStep(p) ==
    /\ req[p].pc = "select_day"
    /\ LET r     == req[p]
           temps == SelectDay(db, r.q, DayStart(r.when), DayStart(r.when) + SecondsPerDay)
       IN  req' = [req EXCEPT ![p] =
                     IF temps = <<>> THEN Idle(Done(r))
                     ELSE [r EXCEPT !.pc = "select_daily",
                                    !.rollup = RollupData(r.q, r.when, temps)]]
    /\ UNCHANGED <<db, request, response, txn, started, call, norm, overlaps>>

\* update_daily_<q>: the SELECT that looks for the day's rollup row
SelectDailyStep(p) ==
    /\ req[p].pc = "select_daily"
    /\ req' = [req EXCEPT ![p].pc = "upsert",
                          ![p].existing = SelectDaily(db, req[p].q, DateOf(req[p].when))]
    /\ UNCHANGED <<db, request, response, txn, started, call, norm, overlaps>>

\* update_daily_<q>: perform_update / perform_insert on the rollup table:
\* cursor.execute
WriteDaily(p) ==
    /\ req[p].pc = "upsert"
    /\ txn.owner = 0
    /\ txn' = Txn(p, UpsertDaily(db, req[p].q, req[p].rollup, req[p].existing))
    /\ req' = [req EXCEPT ![p].pc = "commit_daily"]
    /\ UNCHANGED <<db, request, response, started, call, norm, overlaps>>

\* update_daily_<q>: db.commit() of the rollup row, and the handler's return
CommitDaily(p) ==
    /\ req[p].pc = "commit_daily"
    /\ txn.owner = p
    /\ db' = txn.db
    /\ txn' = NoTxn
    /\ req' = [req EXCEPT ![p] = Idle(Done(req[p]))]
    /\ UNCHANGED <<request, response, started, call, norm, overlaps>>

Step(p) ==
    \/ PostBegin(p)
    \/ PutBegin(p)
    \/ WriteReading(p)
    \/ CommitReading(p)
    \/ SelectDayStep(p)
    \/ SelectDailyStep(p)
    \/ WriteDaily(p)
    \/ CommitDaily(p)

NextStmt == \E p \in Procs : Step(p)

SpecStmt == Init /\ [][NextStmt]_vars

(***************************************************************************)
(* The storage-failure specification: one connection, one statement per    *)
(* step, and any statement may raise                                       *)
(***************************************************************************)
\* the statement the request runs next raises (sqlite3.Error): nothing
\* catches it, the request ends with status 500, and close_connection drops
\* the connection, which rolls back what it has not committed
Fail(p) ==
    /\ req[p].pc /= "idle"
    /\ txn' = IF txn.owner = p THEN NoTxn ELSE txn
    /\ req' = [req EXCEPT ![p] = Idle(Reply(req[p].op, req[p].q, 500, 0))]
    /\ UNCHANGED <<db, request, response, started, call, norm, overlaps>>

NextFail == Step(1) \/ Fail(1)

SpecFail == Init /\ [][NextFail]_vars

(***************************************************************************)
(* The aggregator specification: update_daily_<q> is called once on a      *)
(* table of readings that has no rollup yet                                *)
(***************************************************************************)
InitRollup ==
    /\ \E q \in Quantities : \E table \in SampleTables(q) :
          /\ db = [EmptyDb EXCEPT ![q] = table]
          /\ call = Call(q, 0, FALSE)
    /\ request = NoRequest
    /\ response = NoReply
    /\ req = IdleReq
    /\ txn = NoTxn
    /\ started = 0
    /\ norm = NoNorm
    /\ overlaps = {}

Recompute ==
    \E day \in CallTimes :
        /\ ~call.done
        /\ db' = update_daily(db, call.q, day)
        /\ call' = Call(call.q, day, TRUE)
        /\ UNCHANGED <<request, response, req, txn, started, norm, overlaps>>

NextRollup == Recompute

SpecRollup == InitRollup /\ [][NextRollup]_vars

(***************************************************************************)
(* The repeated aggregator specification: update_daily_<q> is called up to *)
(* MaxCalls times, for any days, on a table of at most MaxFew readings     *)
(***************************************************************************)
InitFew ==
    /\ \E q \in Quantities : \E n \in 0..MaxFew : \E table \in TablesOf(q, n) :
          /\ db = [EmptyDb EXCEPT ![q] = table]
          /\ call = Call(q, 0, FALSE)
    /\ request = NoRequest
    /\ response = NoReply
    /\ req = IdleReq
    /\ txn = NoTxn
    /\ started = 0
    /\ norm = NoNorm
    /\ overlaps = {}

RecomputeAgain ==
    \E day \in CallTimes :
        /\ started < MaxCalls
        /\ db' = update_daily(db, call.q, day)
        /\ call' = Call(call.q, day, TRUE)
        /\ started' = started + 1
        /\ UNCHANGED <<request, response, req, txn, norm, overlaps>>

NextRecompute == RecomputeAgain

SpecRecompute == InitFew /\ [][NextRecompute]_vars

(***************************************************************************)
(* The normaliser specification: normalise_for_resolution is applied to a  *)
(* timestamp and a resolution, and then to its own result                  *)
(***************************************************************************)
\* the largest resolution a request declares
MaxResolution == 60

NormResolutions == 1..MaxResolution
NormHours == {0, 11, 23}
NormSeconds == {0, 30}

\* every minute of the hours 00, 11 and 23 of day 0, on and off the minute
NormTimes ==
    {h * 3600 + m * 60 + s : h \in NormHours, m \in 0..59, s \in NormSeconds}

InitNorm ==
    /\ db = EmptyDb
    /\ request = NoRequest
    /\ response = NoReply
    /\ req = IdleReq
    /\ txn = NoTxn
    /\ started = 0
    /\ call = NoCall
    /\ \E when \in NormTimes : \E resolution \in NormResolutions :
          norm = Norm(when, resolution, 0, 0, 0)
    /\ overlaps = {}

Normalise ==
    /\ norm.applied = 0
    /\ norm' = [norm EXCEPT
                   !.once = normalise_for_resolution(norm.when_recorded, norm.resolution),
                   !.applied = 1]
    /\ UNCHANGED <<db, request, response, req, txn, started, call, overlaps>>

NormaliseAgain ==
    /\ norm.applied = 1
    /\ norm' = [norm EXCEPT
                   !.twice = normalise_for_resolution(norm.once, norm.resolution),
                   !.applied = 2]
    /\ UNCHANGED <<db, request, response, req, txn, started, call, overlaps>>

NextNorm == Normalise \/ NormaliseAgain

SpecNorm == InitNorm /\ [][NextNorm]_vars

(***************************************************************************)
(* What a day's rollup must be, stated from the readings alone             *)
(***************************************************************************)
\* the rowids of the readings of quantity q in d whose timestamp is on `day`
DayIds(d, q, day) ==
    {i \in 1..Len(d[q]) : /\ d[q][i].when_recorded >= day * SecondsPerDay
                          /\ d[q][i].when_recorded < (day + 1) * SecondsPerDay}

\* how many readings of the set precede reading i when the set is listed by
\* value, highest first, equal values in rowid order
Before(d, q, ids, i) ==
    Cardinality({j \in ids : \/ d[q][j][q] > d[q][i][q]
                             \/ d[q][j][q] = d[q][i][q] /\ j < i})

\* the reading at 0-based position k of that listing
AtPosition(d, q, ids, k) == d[q][CHOOSE i \in ids : Before(d, q, ids, i) = k]

RECURSIVE Total(_, _, _)
Total(d, q, ids) ==
    IF ids = {} THEN 0
    ELSE LET i == CHOOSE j \in ids : TRUE IN d[q][i][q] + Total(d, q, ids \ {i})

\* rollup row r is the recomputation of its day from the readings of d
UpToDate(d, q, r) ==
    LET ids == DayIds(d, q, r.day)
        n   == Cardinality(ids)
        hi  == AtPosition(d, q, ids, 0)
        lo  == AtPosition(d, q, ids, n - 1)
        med == AtPosition(d, q, ids, n \div 2)
    IN  /\ n > 0
        /\ r.high = hi[q] /\ r.high_recorded = hi.when_recorded
        /\ r.low = lo[q] /\ r.low_recorded = lo.when_recorded
        /\ r.median = med[q] /\ r.median_recorded = med.when_recorded
        /\ r.mean.num * n = r.mean.den * Total(d, q, ids)

\* the rollup rows of quantity q in d for `day`
DailyIds(d, q, day) ==
    {k \in 1..Len(d[DailyTable(q)]) : d[DailyTable(q)][k].day = day}

\* every reading of d has a rollup row for its day, and every rollup row of
\* that day is up to date
RollupsCurrent(d) ==
    \A q \in Quantities : \A i \in 1..Len(d[q]) :
        LET day == d[q][i].when_recorded \div SecondsPerDay
        IN  /\ DailyIds(d, q, day) /= {}
            /\ \A k \in DailyIds(d, q, day) : UpToDate(d, q, d[DailyTable(q)][k])

(***************************************************************************)
(* Claims                                                                  *)
(***************************************************************************)
\* C1: with requests run one at a time from empty tables, after every Ingest
\* and Correct the rollup row of each day that has readings exists and its
\* high, low, median, mean and the three *_recorded equal the recomputation
\* from the day's current readings (so a corrected extreme is not kept).
C1_RollupFollowsReadings == RollupsCurrent(db)

\* C1 witness: a Correct has lowered the reading that was alone the highest
\* of a day with two readings, and the day's rollup now has a high below the
\* value that was replaced, taken from the other reading.
C1_Witness ==
    /\ response.op = "put" /\ response.status = 204
    /\ LET q   == response.q
           row == db[q][response.id]
           day == row.when_recorded \div SecondsPerDay
       IN  /\ Cardinality(DayIds(db, q, day)) >= 2
           /\ \A i \in DayIds(db, q, day) \ {response.id} :
                 db[q][i][q] < request.replaced
           /\ \E k \in DailyIds(db, q, day) :
                 /\ db[DailyTable(q)][k].high < request.replaced
                 /\ db[DailyTable(q)][k].high_recorded /= row.when_recorded

\* C2: with requests run one at a time from empty tables, no reading table
\* holds two rows with the same when_recorded.
C2_OneReadingPerTimestamp ==
    \A q \in Quantities : \A i, j \in 1..Len(db[q]) :
        db[q][i].when_recorded = db[q][j].when_recorded => i = j

\* C2 witness: an Ingest was refused as a duplicate while the table holds
\* two readings.
C2_Witness ==
    /\ response.op = "post" /\ response.status = 409
    /\ Len(db[response.q]) >= 2

\* C3: an Ingest whose timestamp normalises to the when_recorded of a stored
\* reading of the quantity is answered 409 with that reading's rowid, and
\* changes no row of any table: one row stays stored for the timestamp, with
\* the value and the rollup the first request wrote.
C3_DuplicateIsConflict ==
    [][(response'.op = "post" /\ response'.status \in {201, 409}) =>
        LET q    == response'.q
            when == normalise_for_resolution(request'.when_recorded,
                                             request'.resolution)
            hits == {i \in 1..Len(db[q]) : db[q][i].when_recorded = when}
        IN  hits /= {} =>
              /\ response'.status = 409
              /\ response'.id \in hits
              /\ db' = db
              /\ Cardinality({i \in 1..Len(db'[q]) : db'[q][i].when_recorded = when}) = 1
      ]_vars

\* C3 witness: an Ingest was answered 409 naming a stored reading that was
\* sent with another resolution and another raw timestamp.
C3_Witness ==
    /\ response.op = "post" /\ response.status = 409
    /\ LET row == db[response.q][response.id]
       IN  /\ row.resolution /= request.resolution
           /\ row.when_recorded /= request.when_recorded
           /\ \A w \in Whens :
                normalise_for_resolution(w, row.resolution) = row.when_recorded
                    => w /= request.when_recorded

\* no request is in progress
AllIdle == \A p \in Procs : req[p].pc = "idle"

\* C4 (as claimed): in every committed state of the database, each reading
\* has the rollup row of its day, computed from the readings as they are.
C4_CommittedTogether ==
    \A q \in Quantities : \A i \in 1..Len(db[q]) :
        \E k \in 1..Len(db[DailyTable(q)]) :
            /\ db[DailyTable(q)][k].day = db[q][i].when_recorded \div SecondsPerDay
            /\ UpToDate(db, q, db[DailyTable(q)][k])

\* C5 (as claimed): when a request has ended, by its return or by a storage
\* failure, no reading is committed without the rollup update of its day.
C5_AllOrNothing == AllIdle => RollupsCurrent(db)

\* C6 (as claimed): when the requests of two connections have all completed,
\* every day's rollup is the recomputation from the committed readings.
C6_SameDaySerialized ==
    (AllIdle /\ \A p \in Procs : req[p].reply.status \in {0, 201, 204, 404, 409})
        => RollupsCurrent(db)

\* C7: update_daily_<q> on a day with readings leaves one rollup row for the
\* day whose high is the maximum value, low the minimum, mean the sum over
\* the count, median the value at index floor(n/2) of the values in
\* descending order, each *_recorded being the when_recorded of a reading
\* that has the value of its statistic.
C7_RollupStatistics ==
    call.done =>
        LET q    == call.q
            day  == call.day \div SecondsPerDay
            ids  == DayIds(db, q, day)
            n    == Cardinality(ids)
            V(i) == db[q][i][q]
            From(value, when) ==
                \E i \in ids : V(i) = value /\ db[q][i].when_recorded = when
        IN  n > 0 =>
              /\ Cardinality(DailyIds(db, q, day)) = 1
              /\ \A k \in DailyIds(db, q, day) :
                    LET r == db[DailyTable(q)][k]
                    IN  /\ \A i \in ids : V(i) <= r.high /\ V(i) >= r.low
                        /\ From(r.high, r.high_recorded)
                        /\ From(r.low, r.low_recorded)
                        /\ From(r.median, r.median_recorded)
                        /\ Cardinality({i \in ids : V(i) > r.median}) <= n \div 2
                        /\ Cardinality({i \in ids : V(i) >= r.median}) > n \div 2
                        /\ r.mean.num * n = r.mean.den * Total(db, q, ids)

\* C7 witness: update_daily_<q> has run on a day of four readings of which
\* exactly two are above the median it stored and one is below it: the two
\* middle values differ and the median is the lower of them.
C7_Witness ==
    /\ call.done
    /\ LET q   == call.q
           day == call.day \div SecondsPerDay
           ids == DayIds(db, q, day)
       IN  /\ Cardinality(ids) = 4
           /\ \E k \in DailyIds(db, q, day) :
                 LET r == db[DailyTable(q)][k]
                 IN  /\ Cardinality({i \in ids : db[q][i][q] > r.median}) = 2
                     /\ Cardinality({i \in ids : db[q][i][q] < r.median}) = 1
                     /\ r.high > r.low

\* the rowids of the rows a List reply holds
ListedIds == {response.rows[k].id : k \in 1..Len(response.rows)}

\* the List reply holds rows of the table as they are, none twice
ListedFromTable ==
    /\ Cardinality(ListedIds) = Len(response.rows)
    /\ \A k \in 1..Len(response.rows) :
          LET id == response.rows[k].id
          IN  /\ id \in 1..Len(db[response.q])
              /\ \A f \in DOMAIN db[response.q][id] :
                    response.rows[k][f] = db[response.q][id][f]

\* C8 (as claimed): every List reply is in ascending order of the time field.
C8_ListAscending ==
    response.op = "list" =>
        \A i, j \in 1..Len(response.rows) :
            i < j => response.rows[i][DateField(response.q)]
                        <= response.rows[j][DateField(response.q)]

\* C9: a List query without exactly returns precisely the rows whose time
\* field is <= before (when given) and >= after (when given).
C9_BoundsInclusive ==
    (response.op = "list" /\ "exactly" \notin DOMAIN request) =>
        /\ ListedFromTable
        /\ ListedIds =
             {i \in 1..Len(db[response.q]) :
                LET t == db[response.q][i][DateField(response.q)]
                IN  /\ "before" \in DOMAIN request => t <= request.before
                    /\ "after" \in DOMAIN request => t >= request.after}

\* C9 witness: a List with before = after, no exactly, on a table of two rows
\* returned the one row whose time field equals the bounds.
C9_Witness ==
    /\ response.op = "list"
    /\ DOMAIN request = {"before", "after"}
    /\ request.before = request.after
    /\ Len(db[response.q]) >= 2
    /\ Len(response.rows) = 1
    /\ response.rows[1][DateField(response.q)] = request.before

\* C10: a List query with exactly returns precisely the rows whose time
\* field equals exactly, whatever before and after are.
C10_ExactlyWins ==
    (response.op = "list" /\ "exactly" \in DOMAIN request) =>
        /\ ListedFromTable
        /\ ListedIds =
             {i \in 1..Len(db[response.q]) :
                db[response.q][i][DateField(response.q)] = request.exactly}

\* C10 witness: a List with exactly and an after later than exactly returned
\* the row at exactly, which lies outside the range after asks for.
C10_Witness ==
    /\ response.op = "list"
    /\ {"exactly", "after"} \subseteq DOMAIN request
    /\ request.after > request.exactly
    /\ Len(response.rows) = 1
    /\ response.rows[1][DateField(response.q)] = request.exactly

\* the input of the normaliser with its seconds cut off
NormMinute == norm.when_recorded - (norm.when_recorded % 60)

\* C11 (as claimed): normalising a normalised timestamp again with the same
\* resolution returns it unchanged, for every resolution and timestamp, also
\* when the resolution does not divide 60 and the rounded minute carries
\* into the next hour.
C11_Idempotent == norm.applied = 2 => norm.twice = norm.once

\* C12 (as claimed): the target minute is floor(m/R + 1/2) * R for every
\* minute m and positive resolution R, a minute halfway between two
\* multiples of R going to the higher one.
C12_RoundsHalfUp ==
    norm.applied >= 1 =>
        LET m == MinuteOf(norm.when_recorded)
            R == norm.resolution
        IN  norm.once = NormMinute - 60 * m + 60 * (((2 * m + R) \div (2 * R)) * R)

\* C13: the normalised timestamp has no seconds and a minute of the hour in
\* 0..59, and a target minute of 60 or more is carried forward into the
\* hour and the day: the result is never further than half a resolution
\* from the minute it was given, it is later than that minute when the
\* minute is past the halfway point of its bucket, and 23:53 with
\* resolution 15 becomes 00:00 of the next day.
C13_CarryKept ==
    norm.applied >= 1 =>
        LET m    == MinuteOf(norm.when_recorded)
            R    == norm.resolution
            dist == IF norm.once >= NormMinute THEN norm.once - NormMinute
                    ELSE NormMinute - norm.once
        IN  /\ norm.once % 60 = 0
            /\ MinuteOf(norm.once) \in 0..59
            /\ 2 * dist <= 60 * R
            /\ 2 * (m % R) > R => norm.once > NormMinute
            /\ (NormMinute = 23 * 3600 + 53 * 60 /\ R = 15) =>
                    norm.once = DateOf(norm.when_recorded) * SecondsPerDay + SecondsPerDay

\* C13 witness: a timestamp of hour 23 was normalised into the next day.
C13_Witness ==
    /\ norm.applied >= 1
    /\ norm.when_recorded \div 3600 = 23
    /\ MinuteOf(norm.when_recorded) = 53
    /\ norm.resolution = 15
    /\ DateOf(norm.once) = DateOf(norm.when_recorded) + 1
    /\ norm.once % SecondsPerDay = 0

\* C14 (as claimed): for every timestamp and positive resolution R the
\* minute of the hour of the normalised timestamp is a multiple of R.
C14_OnGrid ==
    norm.applied >= 1 => MinuteOf(norm.once) % norm.resolution = 0

\* update_daily_<q> has run on the day of a table of four readings, all of
\* that day, stored in the order of the values 5, 5, 10, 20
FourReadings ==
    /\ call.done
    /\ call.q \in Quantities
    /\ Len(db[call.q]) = 4
    /\ DayIds(db, call.q, call.day \div SecondsPerDay) = 1..4
    /\ [i \in 1..4 |-> db[call.q][i][call.q]] = <<5, 5, 10, 20>>

\* the rollup row of the day update_daily_<q> was called for
CalledRollup ==
    db[DailyTable(call.q)][CHOOSE k \in DailyIds(db, call.q, call.day \div SecondsPerDay) : TRUE]

\* C15 (as claimed): for four same-day readings ingested in the order of
\* values 5, 5, 10, 20 the rollup's median is 5 and median_recorded is the
\* timestamp of the later-inserted reading of value 5.
C15_MedianIsLaterFive ==
    FourReadings =>
        /\ DailyIds(db, call.q, call.day \div SecondsPerDay) /= {}
        /\ CalledRollup.median = 5
        /\ CalledRollup.median_recorded = db[call.q][2].when_recorded

\* C15 (amended): for four same-day readings ingested in the order of values
\* 5, 5, 10, 20 the rollup's median is 5, not the average of 5 and 10, and
\* median_recorded is the timestamp of the earlier-inserted reading of
\* value 5: the descending order is 20, 10, 5 (first), 5 (second).
C15_MedianIsEarlierFive ==
    FourReadings =>
        /\ DailyIds(db, call.q, call.day \div SecondsPerDay) /= {}
        /\ CalledRollup.median = 5
        /\ CalledRollup.median_recorded = db[call.q][1].when_recorded
        /\ CalledRollup.median_recorded /= db[call.q][2].when_recorded

\* C15 witness: the rollup of four such readings, the earlier-inserted 5
\* carrying the later timestamp of the two.
C15_Witness ==
    /\ FourReadings
    /\ DailyIds(db, call.q, call.day \div SecondsPerDay) /= {}
    /\ CalledRollup.median = 5
    /\ db[call.q][1].when_recorded > db[call.q][2].when_recorded

\* C16: when readings of the day share the maximum value, high_recorded is
\* the when_recorded of the earliest-inserted of them, in every insertion
\* order; low is the last element of the same descending sequence, so
\* low_recorded is that of the latest-inserted reading of the minimum value.
C16_HighIsEarliestInserted ==
    call.done =>
        LET q    == call.q
            day  == call.day \div SecondsPerDay
            ids  == DayIds(db, q, day)
            V(i) == db[q][i][q]
            top  == {i \in ids : \A j \in ids : V(j) <= V(i)}
            bot  == {i \in ids : \A j \in ids : V(j) >= V(i)}
        IN  ids /= {} =>
              /\ DailyIds(db, q, day) /= {}
              /\ CalledRollup.high_recorded =
                    db[q][CHOOSE i \in top : \A j \in top : i <= j].when_recorded
              /\ CalledRollup.low_recorded =
                    db[q][CHOOSE i \in bot : \A j \in bot : i >= j].when_recorded

\* C16 witness: two readings share the day's maximum, the earlier-inserted
\* one has the later timestamp, a lower reading exists, and the rollup is made.
C16_Witness ==
    /\ call.done
    /\ call.q \in Quantities
    /\ LET q    == call.q
           ids  == DayIds(db, q, call.day \div SecondsPerDay)
           V(i) == db[q][i][q]
           top  == {i \in ids : \A j \in ids : V(j) <= V(i)}
       IN  /\ Cardinality(top) >= 2
           /\ top /= ids
           /\ \E i, j \in top : i < j /\ db[q][i].when_recorded > db[q][j].when_recorded
           /\ DailyIds(db, q, call.day \div SecondsPerDay) /= {}

\* C17: update_daily_<q> for a day without readings of the quantity leaves
\* every table as it was, creating, removing and altering no rollup row; for
\* a day with exactly one reading it leaves one rollup row for the day with
\* high = low = median = mean = the reading's value and high_recorded =
\* low_recorded = median_recorded = the reading's when_recorded.
C17_EmptyAndSingleDay ==
    [][LET q   == call'.q
           day == call'.day \div SecondsPerDay
           ids == DayIds(db, q, day)
           one == db[q][CHOOSE i \in ids : TRUE]
       IN  /\ ids = {} => db' = db
           /\ Cardinality(ids) = 1 =>
                 /\ db'[q] = db[q]
                 /\ Cardinality(DailyIds(db', q, day)) = 1
                 /\ \A k \in DailyIds(db', q, day) :
                       LET r == db'[DailyTable(q)][k]
                       IN  /\ r.high = one[q] /\ r.low = one[q] /\ r.median = one[q]
                           /\ r.mean.num = one[q] * r.mean.den
                           /\ r.high_recorded = one.when_recorded
                           /\ r.low_recorded = one.when_recorded
                           /\ r.median_recorded = one.when_recorded]_vars

\* C17 witness: the last call was for a day without readings while the
\* rollup of a day with exactly one reading, made by an earlier call, is
\* in the table.
C17_Witness ==
    /\ call.done
    /\ call.q \in Quantities
    /\ DayIds(db, call.q, call.day \div SecondsPerDay) = {}
    /\ DailyIds(db, call.q, call.day \div SecondsPerDay) = {}
    /\ \E k \in 1..Len(db[DailyTable(call.q)]) :
          LET r == db[DailyTable(call.q)][k]
          IN  /\ Cardinality(DayIds(db, call.q, r.day)) = 1
              /\ r.high = r.low /\ r.median_recorded = r.high_recorded

\* C18: with requests run one at a time from empty tables, the high, the low
\* and the median of every rollup row are each the current value of a reading
\* of the quantity on the rollup's day, and high_recorded, low_recorded and
\* median_recorded are that reading's when_recorded.
C18_RollupReferencesReadings ==
    \A q \in Quantities : \A k \in 1..Len(db[DailyTable(q)]) :
        LET r == db[DailyTable(q)][k]
            From(value, when) ==
                \E i \in DayIds(db, q, r.day) :
                    db[q][i][q] = value /\ db[q][i].when_recorded = when
        IN  /\ From(r.high, r.high_recorded)
            /\ From(r.low, r.low_recorded)
            /\ From(r.median, r.median_recorded)

\* C18 witness: a Correct lowered a reading to the day's low while another
\* reading of the day exists, and the rollup's low is the corrected reading
\* with its new value.
C18_Witness ==
    /\ response.op = "put" /\ response.status = 204
    /\ LET q   == response.q
           row == db[q][response.id]
           day == row.when_recorded \div SecondsPerDay
       IN  /\ Cardinality(DayIds(db, q, day)) >= 2
           /\ row[q] < request.replaced
           /\ \E k \in DailyIds(db, q, day) :
                 /\ db[DailyTable(q)][k].low = row[q]
                 /\ db[DailyTable(q)][k].low_recorded = row.when_recorded

\* C19: in every step of Ingest and Correct run one at a time, the rollup
\* tables afterwards hold at most one row per (quantity, day), no rollup row
\* disappears, and every rollup row keeps its identifier and its day: a
\* recomputation of a day that has a rollup overwrites that row in place.
C19_OneRollupPerDay ==
    [][\A q \in Quantities :
         LET old == db[DailyTable(q)]
             new == db'[DailyTable(q)]
         IN  /\ Len(new) >= Len(old)
             /\ \A k \in 1..Len(old) : new[k].day = old[k].day
             /\ \A j, k \in 1..Len(new) : new[j].day = new[k].day => j = k]_vars

\* C19 witness: an Ingest added a second reading to a day, and the day's one
\* rollup row, made for the first reading, now spans both readings.
C19_Witness ==
    /\ response.op = "post" /\ response.status = 201
    /\ LET q   == response.q
           row == db[q][response.id]
           day == row.when_recorded \div SecondsPerDay
       IN  /\ Cardinality(DayIds(db, q, day)) = 2
           /\ Cardinality(DailyIds(db, q, day)) = 1
           /\ \A k \in DailyIds(db, q, day) :
                 /\ k = 1
                 /\ db[DailyTable(q)][k].high > db[DailyTable(q)][k].low

\* C20: the day bucket is [day 00:00:00, day+1 00:00:00). Every rollup row
\* takes its readings from within that interval; an Ingest leaves the rollup
\* rows of every day but the one of its normalised when_recorded unchanged
\* and brings that day's rollup up to date; an Ingest at 23:53 of day D with
\* resolution 15 is stored at 00:00 of day D+1 and belongs to day D+1 only.
C20_HalfOpenDay ==
    [][(response'.op = "post" /\ response'.status = 201) =>
         LET q     == response'.q
             row   == db'[q][response'.id]
             day   == row.when_recorded \div SecondsPerDay
             old   == db[DailyTable(q)]
             new   == db'[DailyTable(q)]
             In(r, when) == when >= r.day * SecondsPerDay
                              /\ when < (r.day + 1) * SecondsPerDay
         IN  /\ \A k \in 1..Len(old) : old[k].day /= day => new[k] = old[k]
             /\ DailyIds(db', q, day) /= {}
             /\ \A k \in DailyIds(db', q, day) : UpToDate(db', q, new[k])
             /\ \A k \in 1..Len(new) :
                   /\ In(new[k], new[k].high_recorded)
                   /\ In(new[k], new[k].low_recorded)
                   /\ In(new[k], new[k].median_recorded)
             /\ (MinuteOf(request'.when_recorded) = 53
                    /\ (request'.when_recorded \div 3600) % 24 = 23
                    /\ request'.resolution = 15) =>
                   /\ row.when_recorded % SecondsPerDay = 0
                   /\ day = DateOf(request'.when_recorded) + 1]_vars

\* C20 witness: an Ingest at 23:53:10 of day 0 with resolution 15 was stored
\* at 00:00 of day 1 while day 0 has a reading and a rollup of its own; the
\* rollup of day 1 is recorded at that midnight.
C20_Witness ==
    /\ response.op = "post" /\ response.status = 201
    /\ request.when_recorded = 85990 /\ request.resolution = 15
    /\ LET q == response.q
       IN  /\ db[q][response.id].when_recorded = SecondsPerDay
           /\ DayIds(db, q, 0) /= {}
           /\ \E k \in DailyIds(db, q, 0) :
                 db[DailyTable(q)][k].high_recorded < SecondsPerDay
           /\ \E k \in DailyIds(db, q, 1) :
                 db[DailyTable(q)][k].high_recorded = SecondsPerDay

\* C21: a Correct changes nothing but the value (and, for pressure, the
\* sensor temperature) of the reading it names: the table keeps its length,
\* every reading keeps its when_recorded and resolution, every other reading
\* keeps every field, and the other quantity's readings are untouched,
\* whatever fields the body has.
C21_CorrectChangesValueOnly ==
    [][response'.op = "put" =>
         LET q == response'.q
         IN  /\ Len(db'[q]) = Len(db[q])
             /\ \A i \in 1..Len(db[q]) :
                   /\ db'[q][i].when_recorded = db[q][i].when_recorded
                   /\ db'[q][i].resolution = db[q][i].resolution
                   /\ (i /= response'.id \/ response'.status /= 204) =>
                         db'[q][i] = db[q][i]
             /\ \A o \in Quantities \ {q} : db'[o] = db[o]]_vars

\* C21 witness: a Correct raised the value of one of two readings of a table.
C21_Witness ==
    /\ response.op = "put" /\ response.status = 204
    /\ Len(db[response.q]) = 2
    /\ db[response.q][response.id][response.q] > request.replaced

\* C22: a Correct naming an identifier the quantity's table does not hold is
\* answered 404 and changes no reading and no rollup; a Correct answered 204
\* named a row of the table.
C22_UnknownIdNotFound ==
    [][response'.op = "put" =>
         LET known == response'.id \in 1..Len(db[response'.q])
         IN  /\ response'.status = 404 => (~known /\ db' = db)
             /\ response'.status = 204 => known
             /\ (response'.status /= 400 /\ ~known) => response'.status = 404]_vars

\* C22 witness: a Correct for identifier 2 was answered 404 while the table
\* holds one reading, with its rollup.
C22_Witness ==
    /\ response.op = "put" /\ response.status = 404
    /\ response.id = 2
    /\ Len(db[response.q]) = 1
    /\ Len(db[DailyTable(response.q)]) = 1

\* the bodies holding any part of {value, secondary value} and nothing else
Partials(q) == {body \in PutBodies(q) : DOMAIN body \subseteq PutFields(q)}

\* C23 (as claimed): on every stored reading a Correct with any part of
\* {value, secondary value}, the empty part included, passes validation and
\* is answered 204, and the fields it does not supply keep their values.
C23_AnyPartialSucceeds ==
    \A q \in Quantities : \A id \in 1..Len(db[q]) : \A body \in Partials(q) :
        /\ PutBodyValid(q, body)
        /\ LET r == Put(db, q, id, body)
           IN  /\ r.reply.status = 204
               /\ \A f \in DOMAIN db[q][id] \ DOMAIN body :
                     r.db[q][id][f] = db[q][id][f]

\* C24 (as claimed): for every integer resolution, zero and negative ones
\* included, an Ingest ends with an identifier (201), a Conflict (409) or a
\* validation failure (400), never with an unhandled error, and every
\* stored when_recorded is a timestamp on a whole minute.
C24_IngestNeverCrashes ==
    /\ response.op = "post" => response.status \in {201, 400, 409}
    /\ \A q \in Quantities : \A i \in 1..Len(db[q]) :
          db[q][i].when_recorded % 60 = 0

\* C25: Fetch latest answers 404 exactly when the quantity has no reading,
\* and otherwise returns a stored reading, with its identifier, whose
\* when_recorded no reading of the quantity exceeds, in whatever order the
\* readings were ingested.
C25_LatestIsMaximum ==
    response.op = "latest" =>
        LET t == db[response.q]
        IN  /\ response.status = 404 <=> t = <<>>
            /\ response.status = 200 =>
                  LET row == response.rows[1]
                  IN  /\ row.id \in 1..Len(t)
                      /\ row.when_recorded = t[row.id].when_recorded
                      /\ row[response.q] = t[row.id][response.q]
                      /\ \A i \in 1..Len(t) : t[i].when_recorded <= row.when_recorded

\* C25 witness: of two readings the one ingested first has the later
\* timestamp, and Fetch latest returned it.
C25_Witness ==
    /\ response.op = "latest" /\ response.status = 200
    /\ Len(db[response.q]) = 2
    /\ response.rows[1].id = 1
    /\ db[response.q][2].when_recorded < db[response.q][1].when_recorded

\* C29: a List, Fetch or Fetch latest changes no row.  An Ingest or Correct
\* for a quantity leaves the readings and rollups of the other quantity as
\* they were, changes nothing unless it succeeds, and on success leaves the
\* rollup rows of every other day unchanged, adding at most the one rollup
\* row of the affected day.  An Ingest is answered Conflict only for a
\* reading of its own quantity at its normalised timestamp, and succeeds
\* when its own quantity has none there, whatever the other quantity holds.
C29_WritesOwnRowsOnly ==
    [][LET op == response'.op
           st == response'.status
       IN  /\ op \in {"list", "get", "latest"} => db' = db
           /\ op \in {"post", "put"} =>
                 LET q   == response'.q
                     old == db[DailyTable(q)]
                     new == db'[DailyTable(q)]
                 IN  /\ \A o \in Quantities \ {q} :
                           db'[o] = db[o] /\ db'[DailyTable(o)] = db[DailyTable(o)]
                     /\ st \notin {201, 204} => db' = db
                     /\ st \in {201, 204} =>
                           LET day == db'[q][response'.id].when_recorded \div SecondsPerDay
                           IN  /\ Len(new) \in {Len(old), Len(old) + 1}
                               /\ \A k \in 1..Len(old) :
                                     old[k].day /= day => new[k] = old[k]
                               /\ \A k \in 1..Len(new) : k > Len(old) => new[k].day = day
                               /\ Cardinality(DailyIds(db', q, day)) = 1
           /\ (op = "post" /\ st /= 400) =>
                 LET q    == response'.q
                     when == normalise_for_resolution(request'.when_recorded,
                                                      request'.resolution)
                 IN  /\ st = 409 => (response'.id /= 0 /\ response'.id = SelectByWhen(db, q, when))
                     /\ SelectByWhen(db, q, when) = 0 => st = 201]_vars

\* C29 witness: an Ingest succeeded at a timestamp the other quantity holds
\* a reading at, and both quantities have their rollup of that day.
C29_Witness ==
    /\ response.op = "post" /\ response.status = 201
    /\ LET q    == response.q
           when == db[q][response.id].when_recorded
       IN  \E o \in Quantities \ {q} :
             /\ SelectByWhen(db, o, when) /= 0
             /\ DailyIds(db, o, when \div SecondsPerDay) /= {}
             /\ DailyIds(db, q, when \div SecondsPerDay) /= {}

\* C26: when no two requests of one quantity that write the same day have
\* been in progress together, then once every request has completed, under
\* every interleaving of their statements, each day that has readings has
\* exactly one rollup row and it equals the recomputation from the day's
\* committed readings, as after running the requests one after the other.
C26_DifferentDaysIndependent ==
    (AllIdle /\ "same_day" \notin overlaps) =>
        /\ RollupsCurrent(db)
        /\ \A q \in Quantities : \A j, k \in 1..Len(db[DailyTable(q)]) :
              db[DailyTable(q)][j].day = db[DailyTable(q)][k].day => j = k

\* C26 witness: two requests of one quantity that write different days ran
\* at the same time and have completed; the quantity has readings, and a
\* rollup, on two days.
C26_Witness ==
    /\ AllIdle
    /\ overlaps = {"other_day"}
    /\ \E q \in Quantities :
          /\ \E i, j \in 1..Len(db[q]) :
                DateOf(db[q][i].when_recorded) /= DateOf(db[q][j].when_recorded)
          /\ Len(db[DailyTable(q)]) = 2

\* C27 (as claimed): under every interleaving of the statements of
\* concurrent requests, no reading table holds two rows with the same
\* when_recorded and no rollup table holds two rows for the same day.
C27_DedupSurvives ==
    \A q \in Quantities :
        /\ \A i, j \in 1..Len(db[q]) :
              db[q][i].when_recorded = db[q][j].when_recorded => i = j
        /\ \A j, k \in 1..Len(db[DailyTable(q)]) :
              db[DailyTable(q)][j].day = db[DailyTable(q)][k].day => j = k

\* C28: with requests run one at a time from empty tables, after every step
\* the days that have a rollup row of a quantity are exactly the days on
\* which a reading of the quantity has its stored when_recorded, and no
\* step removes a row from a reading table or a rollup table.
C28_RollupIffReadings ==
    [][/\ \A q \in Quantities :
            {db'[DailyTable(q)][k].day : k \in 1..Len(db'[DailyTable(q)])}
              = {DateOf(db'[q][i].when_recorded) : i \in 1..Len(db'[q])}
       /\ \A t \in DOMAIN db :
            /\ Len(db'[t]) >= Len(db[t])
            /\ t \in Quantities =>
                  \A i \in 1..Len(db[t]) :
                      db'[t][i].when_recorded = db[t][i].when_recorded]_vars

\* C28 witness: a reading sent at 23:53:10 of day 0 is the quantity's only
\* one; it is stored on day 1, and the quantity's one rollup is of day 1.
C28_Witness ==
    /\ response.op = "post" /\ response.status = 201
    /\ DateOf(request.when_recorded) = 0
    /\ Len(db[response.q]) = 1
    /\ DayIds(db, response.q, 0) = {}
    /\ DailyIds(db, response.q, 0) = {}
    /\ DailyIds(db, response.q, 1) /= {}

====
